---- MODULE Spec2Model ----
(***************************************************************************)
(* A model of the lex-js Tokenizer (src/src/Tokenizer.js): the spec        *)
(* normalisation, the first-match rule loop, location tracking, the lazy   *)
(* generator behind getNextToken / tokens() / the iterator, getAllTokens   *)
(* and the "Unexpected token" error.                                       *)
(*                                                                         *)
(* Strings are sequences of one-character strings.  A regular expression   *)
(* is a record [source, flags]; its source is a sequence of symbols that   *)
(* is interpreted the way the JavaScript RegExp grammar reads it: "|" has  *)
(* the lowest precedence, "^" is an assertion inside one alternative, and  *)
(* "+" / "*" are greedy quantifiers on the preceding atom.                 *)
(***************************************************************************)
EXTENDS Integers, Sequences, FiniteSets, TLC

\* ------------------------------------------------------------------------
\* Bounds of the model.
\* ------------------------------------------------------------------------
MaxLen == 3

MaxInits == 2

MaxEmit == MaxLen + 1

\* ------------------------------------------------------------------------
\* Characters and input strings.
\* ------------------------------------------------------------------------
NL == "\n"

Alphabet == {"a", NL, ":"}

Inputs == UNION {[1..n -> Alphabet] : n \in 0..MaxLen}

\* The `null` the constructor binds as the string before any init(string).
NullString == <<"<null>">>

\* The null / undefined a handler may return and `tokenType` starts with.
NullType == "<null>"

Max(S) == CHOOSE x \in S : \A y \in S : y <= x

\* ------------------------------------------------------------------------
\* Regular expressions: String.prototype.match(regexp) for a non-global
\* regexp, on the fragment of the grammar the specs below use.
\* ------------------------------------------------------------------------
Quantifiers == {"+", "*"}

\* The set of characters an atom matches.
ClassOf(sym, flags) ==
  CASE sym = "\\s" -> {NL}
    [] sym = "\\w" -> {"a"}
    [] sym = "."   -> IF "s" \in flags THEN Alphabet ELSE Alphabet \ {NL}
    [] OTHER       -> {sym}

\* Splits a source on its top-level "|" into the alternatives.
RECURSIVE SplitAlts(_)
SplitAlts(src) ==
  LET bars == {i \in 1..Len(src) : src[i] = "|"}
  IN IF bars = {} THEN <<src>>
     ELSE LET i == CHOOSE j \in bars : \A k \in bars : j <= k
          IN <<SubSeq(src, 1, i - 1)>> \o SplitAlts(SubSeq(src, i + 1, Len(src)))

\* Length of the run of characters of class cls in s from position p (1-based).
RECURSIVE RunLen(_, _, _)
RunLen(s, p, cls) ==
  IF p <= Len(s) /\ s[p] \in cls THEN 1 + RunLen(s, p + 1, cls) ELSE 0

\* Backtracking match of the terms body[k..] against s from position p
\* (position 1 is the start of the string, the only place "^" holds without
\* the m flag): the position just past the match that the backtracking
\* order finds first, or -1.
RECURSIVE MatchTerms(_, _, _, _, _)
MatchTerms(body, k, s, p, flags) ==
  IF k > Len(body) THEN p
  ELSE IF body[k] = "^"
       THEN IF p = 1 THEN MatchTerms(body, k + 1, s, p, flags) ELSE -1
  ELSE LET q    == IF k < Len(body) /\ body[k + 1] \in Quantifiers
                   THEN body[k + 1] ELSE "1"
           nxt  == IF q = "1" THEN k + 1 ELSE k + 2
           lo   == IF q = "*" THEN 0 ELSE 1
           \* the counts n of repetitions after which the rest matches
           Good(run) == {n \in lo..(IF q = "1" THEN 1 ELSE run) :
                           n <= run /\
                           MatchTerms(body, nxt, s, p + n, flags) # -1}
           \* greedy: the largest count is tried first
           Pick(good) == IF good = {} THEN -1
                         ELSE MatchTerms(body, nxt, s, p + Max(good), flags)
       IN Pick(Good(RunLen(s, p, ClassOf(body[k], flags))))

\* The first alternative, in order, that matches at position p: the end
\* position of its match, or -1.
RECURSIVE MatchAlts(_, _, _, _, _)
MatchAlts(alts, a, s, p, flags) ==
  IF a > Len(alts) THEN -1
  ELSE LET Try(e) == IF e # -1 THEN e
                      ELSE MatchAlts(alts, a + 1, s, p, flags)
       IN Try(MatchTerms(alts[a], 1, s, p, flags))

\* s.match(regexp): the leftmost match.  index is 0-based as in JavaScript.
StringMatch(s, regexp) ==
  LET Found(p, e) ==
        [matched |-> TRUE, index |-> p - 1, text |-> SubSeq(s, p, e - 1)]
      At(alts, p) == Found(p, MatchAlts(alts, 1, s, p, regexp.flags))
      Leftmost(alts, starts) ==
        IF starts = {} THEN [matched |-> FALSE]
        ELSE At(alts, CHOOSE x \in starts : \A y \in starts : x <= y)
      Search(alts) ==
        Leftmost(alts, {p \in 1..(Len(s) + 1) :
                          MatchAlts(alts, 1, s, p, regexp.flags) # -1})
  IN Search(SplitAlts(regexp.source))

\* ------------------------------------------------------------------------
\* Handlers.  A handler is a pure function of the matched text; the three
\* shapes of result _genTokens distinguishes are a label, a [value, type]
\* pair and null.
\* ------------------------------------------------------------------------
Label(type) == [kind |-> "label", type |-> type]

Pair(type) == [kind |-> "pair", type |-> type]

ReturnsNull == [kind |-> "null", type |-> NullType]

\* handle(tokenValue).  The pair handler rewrites the value by dropping the
\* first character of the matched text (as a quote-stripping handler does).
Handle(h, text) ==
  CASE h.kind = "label" -> [isArray |-> FALSE, type |-> h.type, value |-> text]
    [] h.kind = "pair"  -> [isArray |-> TRUE, type |-> h.type,
                            value |-> IF text = <<>> THEN <<>> ELSE Tail(text)]
    [] OTHER            -> [isArray |-> FALSE, type |-> NullType, value |-> text]

\* ------------------------------------------------------------------------
\* Raw specs handed to the constructor.
\* ------------------------------------------------------------------------
RegExp(source, flags) == [source |-> source, flags |-> flags]

Rule(source, flags, handle) ==
  [regexp |-> RegExp(source, flags), handle |-> handle]

ArraySpec(rules) == [shape |-> "array", rules |-> rules]

ObjectSpec(rules) == [shape |-> "object", rules |-> rules]

\* [/\s+/, 'WS'], [/\w+/, 'WORD']: the test suite's default spec on this
\* alphabet; ":" is covered by no rule.
DefaultSpec ==
  ArraySpec(<< Rule(<<"\\s", "+">>, {}, Label("WS")),
               Rule(<<"\\w", "+">>, {}, Label("WORD")) >>)

\* Two rules that match at the same position, the later one longer.
OrderSpec ==
  ObjectSpec(<< Rule(<<"a">>, {}, Label("A")),
                Rule(<<"a", "+", ":">>, {}, Label("AC")),
                Rule(<<"\\w", "+">>, {}, Label("WORD")),
                Rule(<<":">>, {}, Label("COLON")),
                Rule(<<"\\s">>, {}, Label("WS")) >>)

\* A pattern with top-level alternatives.
AltSpec ==
  ArraySpec(<< Rule(<<"a", "|", ":">>, {}, Label("AC")),
               Rule(<<"\\s", "+">>, {}, Label("WS")) >>)

\* The same pattern in a spec that leaves the newline to no rule.
AltOnlySpec ==
  ArraySpec(<< Rule(<<"a", "|", ":">>, {}, Label("AC")) >>)

\* A handler that returns null, before a rule that matches the same text.
NullSpec ==
  ArraySpec(<< Rule(<<"\\s", "*", "a">>, {}, ReturnsNull),
               Rule(<<"\\w", "+">>, {}, Label("WORD")),
               Rule(<<"\\s", "+">>, {}, Label("WS")),
               Rule(<<":">>, {}, Label("COLON")) >>)

\* A handler that returns a [value, type] pair.
PairSpec ==
  ArraySpec(<< Rule(<<":", "\\w", "*">>, {}, Pair("STRING")),
               Rule(<<"\\w", "+">>, {}, Label("WORD")),
               Rule(<<"\\s", "+">>, {}, Label("WS")) >>)

\* A pattern that matches the empty string.
EmptySpec ==
  ArraySpec(<< Rule(<<"a", "*">>, {}, Label("AS")),
               Rule(<<".">>, {}, Label("CHAR")) >>)

\* Patterns with a flag, one written with its anchor and one without.
FlagSpec ==
  ArraySpec(<< Rule(<<"^", ":", ".", "+">>, {"s"}, Label("REST")),
               Rule(<<".", "+">>, {"s"}, Label("ANY")) >>)

RawSpecs ==
  {DefaultSpec, OrderSpec, AltSpec, AltOnlySpec, NullSpec, PairSpec,
   EmptySpec, FlagSpec}

\* ------------------------------------------------------------------------
\* _processSpec: unwraps {rules} and anchors each pattern whose source does
\* not start with "^".  new RegExp(`^${source}`) is built from the source
\* text alone.
\* ------------------------------------------------------------------------
Anchor(regexp) == RegExp(<<"^">> \o regexp.source, {})

ProcessEntry(entry) ==
  IF entry.regexp.source = <<>> \/ entry.regexp.source[1] # "^"
  THEN [entry EXCEPT !.regexp = Anchor(entry.regexp)]
  ELSE entry

_processSpec(spec) ==
  [i \in 1..Len(spec.rules) |-> ProcessEntry(spec.rules[i])]

\* ------------------------------------------------------------------------
\* The state of one Tokenizer instance.
\* ------------------------------------------------------------------------
VARIABLES
  _spec,                    \* the normalised rule list
  _string,                  \* the bound input (NullString before init)
  _cursor,
  _tokens,                  \* [isNull, list]: the array getAllTokens returns
  _currentLine,
  _currentColumn,
  _currentLineBeginOffset,
  _tokenStartOffset,
  _tokenEndOffset,
  _tokenStartLine,
  _tokenEndLine,
  _tokenStartColumn,
  _tokenEndColumn,
  _gen,                     \* the generator object: "suspended" or "completed"
  ret,                      \* what the last call returned or threw
  emitted,                  \* the tokens the generator has yielded since init
  outcome,                  \* how the generator stands since init
  first,                    \* emitted and outcome of the first pass
  inits                     \* passes begun over the bound string: init, resets

engine ==
  << _string, _cursor, _tokens, _currentLine, _currentColumn,
     _currentLineBeginOffset, _tokenStartOffset, _tokenEndOffset,
     _tokenStartLine, _tokenEndLine, _tokenStartColumn, _tokenEndColumn, _gen >>

vars == << _spec, engine, ret, emitted, outcome, first, inits >>

\* The instance as one record, for the methods below.
This ==
  [ _string |-> _string, _cursor |-> _cursor, _tokens |-> _tokens,
    _currentLine |-> _currentLine, _currentColumn |-> _currentColumn,
    _currentLineBeginOffset |-> _currentLineBeginOffset,
    _tokenStartOffset |-> _tokenStartOffset,
    _tokenEndOffset |-> _tokenEndOffset,
    _tokenStartLine |-> _tokenStartLine, _tokenEndLine |-> _tokenEndLine,
    _tokenStartColumn |-> _tokenStartColumn,
    _tokenEndColumn |-> _tokenEndColumn, _gen |-> _gen ]

\* The instance after a method has run.
Becomes(t) ==
  /\ _string' = t._string
  /\ _cursor' = t._cursor
  /\ _tokens' = t._tokens
  /\ _currentLine' = t._currentLine
  /\ _currentColumn' = t._currentColumn
  /\ _currentLineBeginOffset' = t._currentLineBeginOffset
  /\ _tokenStartOffset' = t._tokenStartOffset
  /\ _tokenEndOffset' = t._tokenEndOffset
  /\ _tokenStartLine' = t._tokenStartLine
  /\ _tokenEndLine' = t._tokenEndLine
  /\ _tokenStartColumn' = t._tokenStartColumn
  /\ _tokenEndColumn' = t._tokenEndColumn
  /\ _gen' = t._gen

\* ------------------------------------------------------------------------
\* Methods, as functions of the instance record.
\* ------------------------------------------------------------------------

\* init that leaves the offset of the current line's start as it was.
init_keepsLineBegin(t, string) ==
  [ _string |-> string,
    _cursor |-> 0,
    _tokens |-> [t._tokens EXCEPT !.list = <<>>],
    _currentLine |-> 1,
    _currentColumn |-> 0,
    _currentLineBeginOffset |-> t._currentLineBeginOffset,
    _tokenStartOffset |-> 0,
    _tokenEndOffset |-> 0,
    _tokenStartLine |-> 1,
    _tokenEndLine |-> 1,
    _tokenStartColumn |-> 0,
    _tokenEndColumn |-> 0,
    _gen |-> "suspended" ]

\* init(string): rebinds the string and resets the scan state; the array in
\* _tokens is truncated in place, and a fresh generator is created.
init(t, string) ==
  [ _string |-> string,
    _cursor |-> 0,
    _tokens |-> [t._tokens EXCEPT !.list = <<>>],
    _currentLine |-> 1,
    _currentColumn |-> 0,
    _currentLineBeginOffset |-> 0,
    _tokenStartOffset |-> 0,
    _tokenEndOffset |-> 0,
    _tokenStartLine |-> 1,
    _tokenEndLine |-> 1,
    _tokenStartColumn |-> 0,
    _tokenEndColumn |-> 0,
    _gen |-> "suspended" ]

hasMoreTokens(t) == t._cursor < Len(t._string)

isEOF(t) == t._cursor = Len(t._string)

\* The while loop of _captureLocation over the newlines of the matched text:
\* i is the 0-based index of the next character to look at.
RECURSIVE NlLoop(_, _, _)
NlLoop(t, matched, i) ==
  IF i >= Len(matched) THEN t
  ELSE IF matched[i + 1] = NL
       THEN NlLoop([t EXCEPT
                      !._currentLine = t._currentLine + 1,
                      !._currentLineBeginOffset = t._tokenStartOffset + i + 1],
                   matched, i + 1)
       ELSE NlLoop(t, matched, i + 1)

\* _captureLocation that records the token's end column and leaves the
\* current column as it was.
_captureLocation_columnStale(t, matched) ==
  LET Start(t0) ==
        [t0 EXCEPT
           !._tokenStartOffset = t0._cursor,
           !._tokenStartLine = t0._currentLine,
           !._tokenStartColumn = t0._cursor - t0._currentLineBeginOffset]
      End(t2) ==
        [t2 EXCEPT
           !._tokenEndOffset = t2._cursor + Len(matched),
           !._tokenEndLine = t2._currentLine,
           !._tokenEndColumn =
              t2._cursor + Len(matched) - t2._currentLineBeginOffset]
  IN End(NlLoop(Start(t), matched, 0))

\* _captureLocation(matched)
_captureLocation(t, matched) ==
  LET Start(t0) ==
        [t0 EXCEPT
           !._tokenStartOffset = t0._cursor,
           !._tokenStartLine = t0._currentLine,
           !._tokenStartColumn = t0._cursor - t0._currentLineBeginOffset]
      End(t2) ==
        [t2 EXCEPT
           !._tokenEndOffset = t2._cursor + Len(matched),
           !._tokenEndLine = t2._currentLine,
           !._tokenEndColumn =
              t2._cursor + Len(matched) - t2._currentLineBeginOffset,
           !._currentColumn =
              t2._cursor + Len(matched) - t2._currentLineBeginOffset]
  IN End(NlLoop(Start(t), matched, 0))

\* _toToken(tokenType, tokenValue)
_toToken(t, tokenType, tokenValue) ==
  [ type |-> tokenType,
    value |-> tokenValue,
    startOffset |-> t._tokenStartOffset,
    endOffset |-> t._tokenEndOffset,
    startLine |-> t._tokenStartLine,
    endLine |-> t._tokenEndLine,
    startColumn |-> t._tokenStartColumn,
    endColumn |-> t._tokenEndColumn ]

\* _match with the cursor moved to the end of the match wherever the match
\* begins in the remaining input.
_match_skipsToMatch(t, string, regexp) ==
  LET Advance(t1, m) ==
        [ t |-> [t1 EXCEPT !._cursor = t1._cursor + m.index + Len(m.text)],
          isNull |-> FALSE, value |-> m.text ]
      Result(matched) ==
        IF matched.matched
        THEN Advance(_captureLocation(t, matched.text), matched)
        ELSE [t |-> t, isNull |-> TRUE, value |-> <<>>]
  IN Result(StringMatch(string, regexp))

\* _match with the cursor advanced before the location is captured.
_match_advanceFirst(t, string, regexp) ==
  LET Advance(t1, text) ==
        [ t |-> _captureLocation([t1 EXCEPT !._cursor = t1._cursor + Len(text)],
                                 text),
          isNull |-> FALSE, value |-> text ]
      Result(matched) ==
        IF matched.matched
        THEN Advance(t, matched.text)
        ELSE [t |-> t, isNull |-> TRUE, value |-> <<>>]
  IN Result(StringMatch(string, regexp))

\* _match(string, regexp): on a match the location is captured and the
\* cursor advanced before the matched text is returned.
_match(t, string, regexp) ==
  LET Advance(t1, text) ==
        [ t |-> [t1 EXCEPT !._cursor = t1._cursor + Len(text)],
          isNull |-> FALSE, value |-> text ]
      Result(matched) ==
        IF matched.matched
        THEN Advance(_captureLocation(t, matched.text), matched.text)
        ELSE [t |-> t, isNull |-> TRUE, value |-> <<>>]
  IN Result(StringMatch(string, regexp))

\* string.split('\n'): the lines of a string.
RECURSIVE Split(_)
Split(s) ==
  LET nls == {i \in 1..Len(s) : s[i] = NL}
  IN IF nls = {} THEN <<s>>
     ELSE LET i == CHOOSE j \in nls : \A k \in nls : j <= k
          IN <<SubSeq(s, 1, i - 1)>> \o Split(SubSeq(s, i + 1, Len(s)))

\* throwUnexpectedToken(symbol, line, column): the SyntaxError it throws.
\* The source line and the caret are shown when the line is found and is
\* not empty.
throwUnexpectedToken(t, symbol, line, column) ==
  LET lines == Split(t._string)
      found == line >= 1 /\ line <= Len(lines) /\ lines[line] # <<>>
  IN [ symbol |-> symbol, line |-> line, column |-> column,
       lineSource |-> IF found THEN lines[line] ELSE <<>>,
       pad |-> IF found THEN column ELSE 0 ]

\* The rule loop that goes on to the next rule when a handler returns null.
RECURSIVE RuleLoop_fallsThrough(_, _, _, _)
RuleLoop_fallsThrough(t, string, i, tested) ==
  IF i > Len(_spec)
  THEN [ t |-> t, tokenType |-> NullType, tokenValue |-> <<>>,
         tested |-> tested, handled |-> <<>>, raw |-> <<>> ]
  ELSE LET Break(m, h) ==
             IF h.type = NullType
             THEN RuleLoop_fallsThrough(t, string, i + 1, Append(tested, i))
             ELSE [ t |-> m.t,
                    tokenType |-> h.type,
                    tokenValue |-> IF h.isArray THEN h.value ELSE m.value,
                    tested |-> Append(tested, i),
                    handled |-> <<i>>,
                    raw |-> m.value ]
           Body(m) ==
             IF m.isNull
             THEN RuleLoop_fallsThrough(m.t, string, i + 1, Append(tested, i))
             ELSE Break(m, Handle(_spec[i].handle, m.value))
       IN Body(_match(t, string, _spec[i].regexp))

\* The rule loop that keeps the matched text as the value when the handler
\* returns a pair.
RECURSIVE RuleLoop_rawValue(_, _, _, _)
RuleLoop_rawValue(t, string, i, tested) ==
  IF i > Len(_spec)
  THEN [ t |-> t, tokenType |-> NullType, tokenValue |-> <<>>,
         tested |-> tested, handled |-> <<>>, raw |-> <<>> ]
  ELSE LET Break(m, h) ==
             [ t |-> m.t,
               tokenType |-> h.type,
               tokenValue |-> m.value,
               tested |-> Append(tested, i),
               handled |-> <<i>>,
               raw |-> m.value ]
           Body(m) ==
             IF m.isNull
             THEN RuleLoop_rawValue(m.t, string, i + 1, Append(tested, i))
             ELSE Break(m, Handle(_spec[i].handle, m.value))
       IN Body(_match(t, string, _spec[i].regexp))

\* The rule loop without its break: a later matching rule replaces an
\* earlier one.
RECURSIVE RuleLoop_noBreak(_, _, _, _)
RuleLoop_noBreak(t, string, i, tested) ==
  IF i > Len(_spec)
  THEN [ t |-> t, tokenType |-> NullType, tokenValue |-> <<>>,
         tested |-> tested, handled |-> <<>>, raw |-> <<>> ]
  ELSE LET Break(m, h) ==
             [ t |-> m.t,
               tokenType |-> h.type,
               tokenValue |-> IF h.isArray THEN h.value ELSE m.value,
               tested |-> Append(tested, i),
               handled |-> <<i>>,
               raw |-> m.value ]
           Later(m, rest) ==
             IF rest.tokenType # NullType THEN rest
             ELSE Break(m, Handle(_spec[i].handle, m.value))
           Body(m) ==
             IF m.isNull
             THEN RuleLoop_noBreak(m.t, string, i + 1, Append(tested, i))
             ELSE Later(m, RuleLoop_noBreak(t, string, i + 1,
                                            Append(tested, i)))
       IN Body(_match(t, string, _spec[i].regexp))

\* The for loop of _genTokens from rule i on.  tested and handled are the
\* indices of the rules whose pattern was tried and whose handler was called.
RECURSIVE RuleLoop(_, _, _, _)
RuleLoop(t, string, i, tested) ==
  IF i > Len(_spec)
  THEN [ t |-> t, tokenType |-> NullType, tokenValue |-> <<>>,
         tested |-> tested, handled |-> <<>>, raw |-> <<>> ]
  ELSE LET Break(m, h) ==
             [ t |-> m.t,
               tokenType |-> h.type,
               tokenValue |-> IF h.isArray THEN h.value ELSE m.value,
               tested |-> Append(tested, i),
               handled |-> <<i>>,
               raw |-> m.value ]
           Body(m) ==
             IF m.isNull
             THEN RuleLoop(m.t, string, i + 1, Append(tested, i))
             ELSE Break(m, Handle(_spec[i].handle, m.value))
       IN Body(_match(t, string, _spec[i].regexp))

\* A generator that stays resumable after its body threw or returned.
GenComplete_resumable(t) == t

\* A generator whose body throws or returns is completed.
GenComplete(t) == [t EXCEPT !._gen = "completed"]

\* What the caller can tell about the scan position before a pull.
Position(t) ==
  [cursor |-> t._cursor, line |-> t._currentLine, column |-> t._currentColumn]

\* _gen.next(): runs _genTokens from where it is suspended to its next
\* yield, return or throw.  t is the instance afterwards, res what the
\* caller of next() observes.
GenNext(t) ==
  IF t._gen = "completed"
  THEN [t |-> t, res |-> [kind |-> "end", before |-> Position(t)]]
  ELSE IF t._string = NullString
  THEN [t |-> GenComplete(t),
        res |-> [kind |-> "typeError", before |-> Position(t)]]
  ELSE IF ~hasMoreTokens(t)
  THEN [t |-> GenComplete(t), res |-> [kind |-> "end", before |-> Position(t)]]
  ELSE LET After(string, r) ==
             IF r.tokenType = NullType
             THEN [ t |-> GenComplete(r.t),
                    res |-> [ kind |-> "error",
                              error |-> throwUnexpectedToken(r.t, string[1],
                                          r.t._currentLine, r.t._currentColumn),
                              before |-> Position(t),
                              tested |-> r.tested, handled |-> r.handled,
                              raw |-> r.raw ] ]
             ELSE [ t |-> r.t,
                    res |-> [ kind |-> "token",
                              token |-> _toToken(r.t, r.tokenType, r.tokenValue),
                              before |-> Position(t),
                              tested |-> r.tested, handled |-> r.handled,
                              raw |-> r.raw ] ]
           Scan(string) == After(string, RuleLoop(t, string, 1, <<>>))
       IN Scan(SubSeq(t._string, t._cursor + 1, Len(t._string)))

\* [...this]: pulls until the generator is done or throws.  A generator that
\* is still yielding after `fuel` tokens never lets the spread return.
RECURSIVE Spread(_, _, _)
Spread(t, list, fuel) ==
  LET Step(r) ==
        IF r.res.kind = "token"
        THEN IF fuel = 0
             THEN [t |-> r.t, kind |-> "diverges", list |-> list,
                   last |-> r.res]
             ELSE Spread(r.t, Append(list, r.res.token), fuel - 1)
        ELSE [t |-> r.t, kind |-> r.res.kind, list |-> list, last |-> r.res]
  IN Step(GenNext(t))

\* getAllTokens that fills the array from the iterator on every call.
getAllTokens_alwaysSpreads(t) ==
  LET Store(d) ==
        [ t |-> IF d.kind = "end"
                THEN [d.t EXCEPT !._tokens =
                                   [isNull |-> FALSE, list |-> d.list]]
                ELSE d.t,
          kind |-> d.kind, list |-> d.list, pulled |-> d.list,
          last |-> d.last ]
  IN Store(Spread(t, <<>>, MaxEmit))

\* getAllTokens(): the array in _tokens, filled from the iterator only when
\* _tokens is null.  pulled are the tokens the generator yielded meanwhile.
getAllTokens(t) ==
  IF t._tokens.isNull
  THEN LET Store(d) ==
             [ t |-> IF d.kind = "end"
                     THEN [d.t EXCEPT !._tokens =
                                        [isNull |-> FALSE, list |-> d.list]]
                     ELSE d.t,
               kind |-> d.kind, list |-> d.list, pulled |-> d.list,
               last |-> d.last ]
       IN Store(Spread(t, <<>>, MaxEmit))
  ELSE [ t |-> t, kind |-> "end", list |-> t._tokens.list, pulled |-> <<>>,
         last |-> [kind |-> "none", before |-> Position(t)] ]

\* ------------------------------------------------------------------------
\* The state after `new Tokenizer(spec)`: the spec is normalised, _tokens
\* is an empty array and init(null) has run.
\* ------------------------------------------------------------------------
Running == [status |-> "running"]

Constructed(spec) ==
  init([ _string |-> NullString, _cursor |-> 0,
         _tokens |-> [isNull |-> FALSE, list |-> <<>>],
         _currentLine |-> 1, _currentColumn |-> 0,
         _currentLineBeginOffset |-> 0,
         _tokenStartOffset |-> 0, _tokenEndOffset |-> 0,
         _tokenStartLine |-> 1, _tokenEndLine |-> 1,
         _tokenStartColumn |-> 0, _tokenEndColumn |-> 0,
         _gen |-> "suspended" ], NullString)

Init ==
  /\ \E spec \in RawSpecs : _spec = _processSpec(spec)
  /\ \E t \in {Constructed(<<>>)} :
       /\ _string = t._string
       /\ _cursor = t._cursor
       /\ _tokens = t._tokens
       /\ _currentLine = t._currentLine
       /\ _currentColumn = t._currentColumn
       /\ _currentLineBeginOffset = t._currentLineBeginOffset
       /\ _tokenStartOffset = t._tokenStartOffset
       /\ _tokenEndOffset = t._tokenEndOffset
       /\ _tokenStartLine = t._tokenStartLine
       /\ _tokenEndLine = t._tokenEndLine
       /\ _tokenStartColumn = t._tokenStartColumn
       /\ _tokenEndColumn = t._tokenEndColumn
       /\ _gen = t._gen
  /\ ret = [op |-> "new", kind |-> "void"]
  /\ emitted = <<>>
  /\ outcome = Running
  /\ first = [emitted |-> <<>>, outcome |-> Running]
  /\ inits = 0

\* ------------------------------------------------------------------------
\* Bookkeeping of what the caller has seen.
\* ------------------------------------------------------------------------

\* How the generator stands after a next() that observed res.
OutcomeAfter(wasCompleted, res) ==
  IF wasCompleted THEN outcome
  ELSE CASE res.kind = "token"     -> Running
         [] res.kind = "end"       -> [status |-> "exhausted"]
         [] res.kind = "error"     -> [status |-> "failed", error |-> res.error]
         [] res.kind = "typeError" -> [status |-> "typeError"]
         [] OTHER                  -> outcome

\* The record of the first pass grows while the first pass runs.
Observe(em, out) ==
  /\ emitted' = em
  /\ outcome' = out
  /\ first' = IF inits <= 1 THEN [emitted |-> em, outcome |-> out] ELSE first

\* ------------------------------------------------------------------------
\* Operations.
\* ------------------------------------------------------------------------

\* tokenizer.init(string).  A new string is bound at any point of the first
\* pass over the current one.
InitString ==
  /\ inits <= 1
  /\ \E string \in Inputs :
       \E t \in {init(This, string)} :
         /\ Becomes(t)
         /\ ret' = [op |-> "init", kind |-> "void"]
  /\ emitted' = <<>>
  /\ outcome' = Running
  /\ first' = [emitted |-> <<>>, outcome |-> Running]
  /\ inits' = 1
  /\ UNCHANGED _spec

\* tokenizer.reset()
Reset ==
  /\ inits < MaxInits
  /\ \E t \in {init(This, _string)} : Becomes(t)
  /\ ret' = [op |-> "reset", kind |-> "void"]
  /\ emitted' = <<>>
  /\ outcome' = Running
  /\ inits' = inits + 1
  /\ UNCHANGED << _spec, first >>

\* tokens() with a generator of its own: return this._genTokens().
tokens_ownGenerator(t) == [t EXCEPT !._gen = "suspended"]

\* tokens(): returns this._gen.  The generator's position is part of the
\* instance, so the instance stands for its generator.
tokens(t) == t

\* [Symbol.iterator](): returns this._gen.
iterator(t) == t

EntryPoints == {"getNextToken", "tokens", "iterator"}

\* The generator next() is called on through entry point op; getNextToken
\* calls this._gen.next() itself.
Generator(op, t) ==
  CASE op = "tokens"   -> tokens(t)
    [] op = "iterator" -> iterator(t)
    [] OTHER           -> t

\* One next() on the generator reached through entry point op.  The three
\* entry points hand out the same generator object, so the caller cannot
\* tell them apart by the result; with tracked, the call records the entry
\* points used since the last init / reset.
PullVia(op, tracked) ==
  \E r \in {GenNext(Generator(op, This))} :
    \E em \in {IF r.res.kind = "token" THEN Append(emitted, r.res.token)
                ELSE emitted} :
      /\ Len(em) <= MaxEmit
      /\ Becomes(r.t)
      /\ ret' = IF tracked
                THEN [op |-> "next", res |-> r.res,
                      used |-> (IF ret.op = "next" THEN ret.used ELSE {})
                                 \cup {op}]
                ELSE [op |-> "next", res |-> r.res]
      /\ Observe(em, OutcomeAfter(_gen = "completed", r.res))
      /\ UNCHANGED << _spec, inits >>

Pull(op) == PullVia(op, FALSE)

\* tokenizer.getNextToken()
GetNextToken == Pull("getNextToken")

\* tokenizer.tokens().next()
TokensNext == Pull("tokens")

\* tokenizer[Symbol.iterator]().next()
IteratorNext == Pull("iterator")

\* Leaving a for...of over the tokenizer early calls return() on the
\* generator, which completes it.
IteratorReturn ==
  /\ _gen = "suspended"
  /\ Becomes(GenComplete(This))
  /\ ret' = [op |-> "return", kind |-> "void"]
  /\ Observe(emitted, [status |-> "closed"])
  /\ UNCHANGED << _spec, inits >>

\* [...tokenizer]
SpreadIterator ==
  /\ Len(emitted) <= MaxEmit
  /\ \E d \in {Spread(This, <<>>, MaxEmit - Len(emitted))} :
       /\ d.kind # "diverges"
       /\ Becomes(d.t)
       /\ ret' = [op |-> "spread", kind |-> d.kind, list |-> d.list,
                  res |-> d.last]
       /\ Observe(emitted \o d.list,
                  OutcomeAfter(_gen = "completed", d.last))
       /\ UNCHANGED << _spec, inits >>

\* tokenizer.getAllTokens().  again tells a call that directly follows
\* another getAllTokens() call.
GetAllTokens ==
  \E d \in {getAllTokens(This)} :
    /\ d.kind # "diverges"
    /\ Becomes(d.t)
    /\ ret' = [op |-> "getAllTokens", kind |-> d.kind, list |-> d.list,
               res |-> d.last, again |-> ret.op = "getAllTokens"]
    /\ Observe(emitted \o d.pulled, OutcomeAfter(_gen = "completed", d.last))
    /\ UNCHANGED << _spec, inits >>

Next ==
  \/ InitString
  \/ Reset
  \/ GetNextToken
  \/ TokensNext
  \/ IteratorNext
  \/ IteratorReturn
  \/ SpreadIterator
  \/ GetAllTokens

Spec == Init /\ [][Next]_vars

\* The pulls of one pass through the three entry points, each call
\* recording the entry points used so far.
TrackedPull == \E op \in EntryPoints : PullVia(op, TRUE)

NextEntry ==
  \/ InitString
  \/ Reset
  \/ TrackedPull

SpecEntry == Init /\ [][NextEntry]_vars

\* ------------------------------------------------------------------------
\* Properties.
\* ------------------------------------------------------------------------

\* The generator ran to the end of the input without throwing.
Exhausted == outcome.status = "exhausted"

\* C1: when the tokens of an input have been pulled to exhaustion without an
\* error, their spans are contiguous and cover the input: the first starts
\* at offset 0, each ends where the next starts, and the last ends at the
\* input length.  (The spans of the tokens emitted so far are contiguous
\* from 0 in every state.)
C1_SpansCoverInput ==
  /\ emitted # <<>> => emitted[1].startOffset = 0
  /\ \A i \in 1..(Len(emitted) - 1) :
       emitted[i].endOffset = emitted[i + 1].startOffset
  /\ (Exhausted /\ emitted # <<>>) =>
       emitted[Len(emitted)].endOffset = Len(_string)

\* A pass that ended without error after several tokens, one of them longer
\* than one character.
C1_Witness ==
  /\ Exhausted
  /\ Len(emitted) >= 2
  /\ \E i \in 1..Len(emitted) : emitted[i].endOffset - emitted[i].startOffset >= 2

\* ------------------------------------------------------------------------
\* What the input text says about an offset.
\* ------------------------------------------------------------------------

\* 1 + the number of newlines in input[0..c).
LineAt(string, c) == 1 + Cardinality({i \in 1..c : string[i] = NL})

\* c minus the offset just past the last newline before c (0 if none).
ColumnAt(string, c) == c - Max({0} \cup {i \in 1..c : string[i] = NL})

\* The input from offset c on.
Remaining(string, c) == SubSeq(string, c + 1, Len(string))

\* The result of the last next() on the generator, when the last call made one.
Pulled == ret.op \in {"next", "spread"}

\* C3: the token of a pull is produced by the lowest-indexed rule whose
\* pattern matches the remaining input, whatever a later rule would match:
\* the rules tested are exactly 1..w in order, none before w matches, w
\* does, only w's handler is called, and the token carries w's match and
\* w's label.
C3_FirstMatchingRuleWins ==
  (Pulled /\ ret.res.kind = "token") =>
    LET rest == Remaining(_string, ret.res.before.cursor)
        w == Len(ret.res.tested)
    IN /\ w >= 1
       /\ ret.res.tested = [i \in 1..w |-> i]
       /\ ret.res.handled = <<w>>
       /\ \A j \in 1..(w - 1) : ~StringMatch(rest, _spec[j].regexp).matched
       /\ StringMatch(rest, _spec[w].regexp).matched
       /\ ret.res.raw = StringMatch(rest, _spec[w].regexp).text
       /\ ret.res.token.type = _spec[w].handle.type
       /\ _cursor = ret.res.before.cursor + Len(ret.res.raw)

\* A token taken by a rule although a later rule matches a longer text at
\* the same position.
C3_Witness ==
  /\ Pulled /\ ret.res.kind = "token"
  /\ \E j \in (Len(ret.res.tested) + 1)..Len(_spec) :
       LET m == StringMatch(Remaining(_string, ret.res.before.cursor),
                            _spec[j].regexp)
       IN m.matched /\ m.index = 0 /\ Len(m.text) > Len(ret.res.raw)

\* C2: getAllTokens() called after init(input), on an input that tokenizes
\* without error, returns exactly the tokens repeated getNextToken() calls
\* return up to the end-marker and leaves hasMoreTokens() false; a reset()
\* after it on a non-empty input makes hasMoreTokens() true again.
C2_GetAllTokensDrains ==
  [][ /\ ( /\ ret.op \in {"init", "reset"}
           /\ ret'.op = "getAllTokens"
           /\ _string # NullString
           /\ Spread(This, <<>>, MaxEmit).kind = "end" )
         => /\ ret'.kind = "end"
            /\ ret'.list = Spread(This, <<>>, MaxEmit).list
            /\ ~(_cursor' < Len(_string'))
      /\ ( /\ ret.op = "getAllTokens"
           /\ ret'.op = "reset"
           /\ _string # NullString /\ _string # <<>> )
         => _cursor' < Len(_string')
    ]_vars

\* C4: a pull at cursor c < input length, on a generator that has not
\* finished, with no rule matching the remaining input raises the
\* "Unexpected token" error and emits no token; the error names input[c],
\* its line is 1 + the number of newlines in input[0..c) and its column is
\* c minus the offset just past the last newline before c.
C4_UnexpectedTokenReport ==
  [][ ( /\ ret'.op = "next"
        /\ _gen = "suspended"
        /\ _string # NullString
        /\ _cursor < Len(_string)
        /\ \A i \in 1..Len(_spec) :
             ~StringMatch(Remaining(_string, _cursor), _spec[i].regexp).matched )
      => /\ ret'.res.kind = "error"
         /\ emitted' = emitted
         /\ ret'.res.error.symbol = _string[_cursor + 1]
         /\ ret'.res.error.line = LineAt(_string, _cursor)
         /\ ret'.res.error.column = ColumnAt(_string, _cursor)
    ]_vars

\* C5: when a pull raises the "Unexpected token" error, for either cause,
\* cursor, current line and current column are what they were immediately
\* before that pull, and the cursor is the offset of the character the
\* error names.
C5_ErrorLeavesScanState ==
  (Pulled /\ ret.res.kind = "error") =>
    /\ Position(This) = ret.res.before
    /\ ret.res.error.symbol = _string[_cursor + 1]

\* A pass is over once the generator returned at the end or threw.
Final(o) == o.status \in {"exhausted", "failed"}

\* s is a prefix of l.
IsPrefix(s, l) == Len(s) <= Len(l) /\ SubSeq(l, 1, Len(s)) = s

\* C6: restart law.  Whatever was called since init(input), reset() puts the
\* engine at the start of the input (cursor 0, line 1, column 0, a fresh
\* sequence), and pulling again yields the tokens of the first pass: the
\* two passes agree token for token as far as both went, and a pass that
\* ran to its end or to its error has every token of the other and, when
\* both are over, the same tokens and the same end or error.
C6_RestartLaw ==
  /\ ret.op = "reset" =>
       /\ _cursor = 0 /\ _currentLine = 1 /\ _currentColumn = 0
       /\ _gen = "suspended" /\ emitted = <<>>
  /\ inits >= 2 =>
       /\ IsPrefix(emitted, first.emitted) \/ IsPrefix(first.emitted, emitted)
       /\ Final(outcome) => IsPrefix(first.emitted, emitted)
       /\ Final(first.outcome) => IsPrefix(emitted, first.emitted)
       /\ (Final(outcome) /\ Final(first.outcome)) => outcome = first.outcome

\* A pass after reset() that is over, as the first pass is, with several
\* tokens reaching into a later line of the input.
C6_Witness ==
  /\ inits >= 2
  /\ Final(outcome) /\ Final(first.outcome)
  /\ Len(emitted) >= 2
  /\ emitted[Len(emitted)].endLine >= 2
  /\ emitted[Len(emitted)].endColumn >= 1

\* C7: the line and column fields of every emitted token agree with the
\* input text at the token's offsets, also for tokens whose text contains
\* newlines.
C7_LocationsAgreeWithInput ==
  \A i \in 1..Len(emitted) :
    LET tok == emitted[i]
    IN /\ tok.startLine = LineAt(_string, tok.startOffset)
       /\ tok.endLine = LineAt(_string, tok.endOffset)
       /\ tok.startColumn = ColumnAt(_string, tok.startOffset)
       /\ tok.endColumn = ColumnAt(_string, tok.endOffset)

\* The values of a token list, joined.
RECURSIVE Concat(_)
Concat(toks) ==
  IF toks = <<>> THEN <<>> ELSE Head(toks).value \o Concat(Tail(toks))

\* Every character of the input is matched by some rule, and every handler
\* returns a label only.
Covered ==
  /\ \A i \in 1..Len(_string) : \E j \in 1..Len(_spec) :
       LET m == StringMatch(<<_string[i]>>, _spec[j].regexp)
       IN m.matched /\ m.text = <<_string[i]>>
  /\ \A j \in 1..Len(_spec) : _spec[j].handle.kind = "label"

\* C8: when every character is covered by some rule and the handlers return
\* only a label, the values of the emitted tokens, joined in order, are the
\* input.
C8_ValuesReproduceInput ==
  (_string # NullString /\ Exhausted /\ Covered) => Concat(emitted) = _string

\* C9: a token carries the six location fields exactly when captureLocations
\* is true for the scan.  The option is off by default, and this source has
\* no setOptions and no options argument of init, so it is never on.
C9_LocationsOffByDefault ==
  \A i \in 1..Len(emitted) : DOMAIN emitted[i] = {"type", "value"}

\* C10: once a pull has raised the error, until the next init / reset every
\* getNextToken() returns the end-marker, no token is emitted and the
\* cursor does not change.
C10_ErrorIsFatal ==
  [][ (outcome.status = "failed" /\ outcome'.status = "failed") =>
        /\ _cursor' = _cursor
        /\ emitted' = emitted
        /\ outcome' = outcome
        /\ ret'.op = "next" => ret'.res.kind = "end"
    ]_vars

\* A pull after the error, with input left, has returned the end-marker.
C10_Witness ==
  /\ outcome.status = "failed"
  /\ ret.op = "next" /\ ret.res.kind = "end"
  /\ _string # NullString /\ _cursor < Len(_string)

\* C11: the token sequence is finite: after init(input), repeated
\* getNextToken() calls reach the end-marker or the error, for every spec,
\* also one with a pattern that matches the empty string; tokens are never
\* emitted with the cursor stalled.  Stated as the progress that makes the
\* sequence finite: every pull that emits a token moves the cursor forward.
\* (A pull that emits with the cursor where it was leaves the scan state
\* as it found it, so every later pull repeats it.)
C11_TokenSequenceFinite ==
  [][ Len(emitted') > Len(emitted) => _cursor' > _cursor ]_vars

\* C12: getAllTokens() is idempotent: a call that directly follows another
\* one, with no init / reset between, returns the same list, and it does
\* not scan: cursor, current line and current column stay as they are.
C12_GetAllTokensIdempotent ==
  [][ (ret.op = "getAllTokens" /\ ret'.op = "getAllTokens") =>
        /\ ret'.kind = ret.kind
        /\ ret'.list = ret.list
        /\ Position(This)' = Position(This)
        /\ emitted' = emitted
    ]_vars

\* A second getAllTokens() in a row has returned, on an input with
\* characters left to scan.
C12_Witness ==
  /\ ret.op = "getAllTokens" /\ ret.again
  /\ _string # NullString /\ hasMoreTokens(This)

\* Rule w is the first rule of the spec whose pattern matches text.
FirstMatching(w, text) ==
  /\ w \in 1..Len(_spec)
  /\ StringMatch(text, _spec[w].regexp).matched
  /\ \A i \in 1..(w - 1) : ~StringMatch(text, _spec[i].regexp).matched

\* C13: when the handler of the first matching rule returns null, the pull
\* raises the "Unexpected token" error and emits no token; no later rule is
\* tried, not even one whose pattern matches at that position.
C13_NullHandlerIsUnexpectedToken ==
  [][ ( /\ ret'.op = "next"
        /\ _gen = "suspended"
        /\ _string # NullString
        /\ _cursor < Len(_string) )
      => \A w \in 1..Len(_spec) :
           ( /\ _spec[w].handle.kind = "null"
             /\ FirstMatching(w, Remaining(_string, _cursor)) )
           => /\ ret'.res.kind = "error"
              /\ emitted' = emitted
              /\ ret'.res.handled = <<w>>
              /\ ret'.res.tested = [i \in 1..w |-> i]
    ]_vars

\* A handler returned null and the pull failed although a later rule
\* matches at the position the pull started from.
C13_Witness ==
  /\ ret.op = "next" /\ ret.res.kind = "error"
  /\ ret.res.handled # <<>>
  /\ _spec[ret.res.handled[1]].handle.kind = "null"
  /\ \E j \in (ret.res.handled[1] + 1)..Len(_spec) :
       StringMatch(Remaining(_string, ret.res.before.cursor),
                   _spec[j].regexp).matched

\* The last pull returned a token made by a handler that returns a pair.
PairToken ==
  /\ ret.op = "next" /\ ret.res.kind = "token"
  /\ _spec[ret.res.handled[1]].handle.kind = "pair"

\* C14: when the handler of the winning rule returns a pair [v, t], the
\* token has value v and type t, while the cursor advance and the span
\* endOffset - startOffset are the length of the matched text, not of v.
C14_PairHandlerOverridesValue ==
  PairToken =>
    /\ ret.res.token.value =
         Handle(_spec[ret.res.handled[1]].handle, ret.res.raw).value
    /\ ret.res.token.type = _spec[ret.res.handled[1]].handle.type
    /\ ret.res.token.endOffset - ret.res.token.startOffset = Len(ret.res.raw)
    /\ _cursor = ret.res.before.cursor + Len(ret.res.raw)

\* A pair token whose value is not empty and shorter than the matched text.
C14_Witness ==
  /\ PairToken
  /\ ret.res.token.value # <<>>
  /\ Len(ret.res.token.value) < Len(ret.res.raw)

\* C15: between two init / reset calls the cursor never decreases and
\* changes only during a pull; a pull that emits a token adds the length of
\* the matched text to it, a pull that returns the end marker leaves it as
\* it is.
C15_CursorMonotone ==
  [][ ret'.op \notin {"init", "reset"} =>
        /\ _cursor' >= _cursor
        /\ ret'.op \notin {"next", "spread"} => _cursor' = _cursor
        /\ (ret'.op = "next" /\ ret'.res.kind = "token")
             => _cursor' = _cursor + Len(ret'.res.raw)
        /\ (ret'.op = "next" /\ ret'.res.kind = "end") => _cursor' = _cursor
    ]_vars

\* A token has been pulled past the start of the input, from a match that
\* did not begin where the remaining input begins.
C15_Witness ==
  /\ ret.op = "next" /\ ret.res.kind = "token"
  /\ ret.res.before.cursor > 0
  /\ ret.res.raw # <<>>
  /\ ret.res.raw # SubSeq(_string, ret.res.before.cursor + 1,
                          ret.res.before.cursor + Len(ret.res.raw))

\* C16: every pattern of the normalised spec, whatever its shape, matches
\* only at the scan position: the text matched for a token is the substring
\* of the input that begins at the cursor the pull started from.
C16_PatternsMatchAtCursor ==
  (ret.op = "next" /\ ret.res.kind = "token") =>
    ret.res.raw = SubSeq(_string, ret.res.before.cursor + 1,
                         ret.res.before.cursor + Len(ret.res.raw))

\* The rule list the constructor made of the raw spec obeys the
\* normalisation law: same length, order, handlers and flags; every source
\* begins with the anchor; an anchored pattern is the one that was given, any
\* other is the given source behind one anchor; normalising again changes
\* nothing.
Normalised(raw) ==
  /\ Len(_spec) = Len(raw.rules)
  /\ \A i \in 1..Len(raw.rules) :
       /\ _spec[i].handle = raw.rules[i].handle
       /\ _spec[i].regexp.flags = raw.rules[i].regexp.flags
       /\ _spec[i].regexp.source[1] = "^"
       /\ _spec[i].regexp.source =
            IF raw.rules[i].regexp.source # <<>>
               /\ raw.rules[i].regexp.source[1] = "^"
            THEN raw.rules[i].regexp.source
            ELSE <<"^">> \o raw.rules[i].regexp.source
  /\ _processSpec(ArraySpec(_spec)) = _spec
  /\ _processSpec(ObjectSpec(_spec)) = _spec

\* C17: normalisation returns a rule list of the same length and order in
\* which every pattern is anchored and keeps its flags and handler; an
\* anchored pattern is left unchanged, so normalising a normalised spec
\* changes nothing.
C17_NormalisationKeepsRules ==
  \A raw \in RawSpecs : _spec = _processSpec(raw) => Normalised(raw)

\* getCursor(), getCurrentLine(), getCurrentColumn()
getCursor(t) == t._cursor

getCurrentLine(t) == t._currentLine

getCurrentColumn(t) == t._currentColumn

\* C19: once a string is bound, 0 <= cursor <= input length, so isEOF() is
\* the negation of hasMoreTokens(); right after a pull that emits a token
\* getCursor(), getCurrentLine() and getCurrentColumn() are that token's
\* endOffset, endLine and endColumn.
C19_CursorInBoundsAccessorsAgree ==
  _string # NullString =>
    /\ 0 <= getCursor(This) /\ getCursor(This) <= Len(_string)
    /\ isEOF(This) = ~hasMoreTokens(This)
    /\ (ret.op = "next" /\ ret.res.kind = "token") =>
         /\ getCursor(This) = ret.res.token.endOffset
         /\ getCurrentLine(This) = ret.res.token.endLine
         /\ getCurrentColumn(This) = ret.res.token.endColumn

\* The last pull emitted a token that ends on a later line than it starts,
\* past column 0.
C19_Witness ==
  /\ ret.op = "next" /\ ret.res.kind = "token"
  /\ ret.res.token.endLine > ret.res.token.startLine
  /\ ret.res.token.endColumn > 0

\* The tokens one uninterrupted pass over the bound input delivers.
OnePass == Spread(init(This, _string), <<>>, MaxEmit).list

\* C18: within one init / reset epoch getNextToken(), tokens() and the
\* iterator advance one token sequence: however pulls through the three are
\* interleaved, the tokens delivered so far are the first tokens of the
\* input in input order, each once, and when the pass is over they are all
\* of them.
C18_EntryPointsShareSequence ==
  LET Delivered(all) ==
        /\ IsPrefix(emitted, all)
        /\ Final(outcome) => emitted = all
  IN _string # NullString => Delivered(OnePass)

\* A pass of three tokens or more that ran to the end through all three
\* entry points.
C18_Witness ==
  /\ ret.op = "next" /\ ret.used = EntryPoints
  /\ Exhausted
  /\ Len(emitted) >= 3

====
